---- MODULE Spec2Model ----
(***************************************************************************)
(* Diamond3D of 3d_diamond.py: an octahedron of 6 vertices and 8 faces,    *)
(* with scale, translate, rotate_x/y/z, reflect_x/y/z and reset.           *)
(*                                                                         *)
(* Numbers.  The program computes in IEEE doubles.  Every double that the  *)
(* model meets is either a small integer, on which double arithmetic is    *)
(* exact, or a small integer plus a multiple of                            *)
(*     delta = pi/2 - fl(pi/2) = 6.123233995736766e-17,                    *)
(* which is what np.cos and np.sin return at multiples of 90 degrees       *)
(* (np.cos(np.radians(90)) is delta, not 0; np.sin(np.radians(180)) is     *)
(* 2*delta; np.cos(np.radians(270)) is -3*delta; np.sin(np.radians(360))   *)
(* is -4*delta).  A number is the record [m |-> a, e |-> b], standing for  *)
(* a + b*delta; products drop the delta^2 term (below 4e-33) and the       *)
(* rounding of each operation (relative 2^-53) is not tracked.             *)
(***************************************************************************)
EXTENDS Integers, Sequences, FiniteSets, TLC

VARIABLES
    heap,               \* object identity -> ndarray value, or Free
    vertices_original,  \* self.vertices_original: the identity of an ndarray
    vertices,           \* self.vertices: the identity of an ndarray
    faces,              \* self.faces: list of 8 index triples
    log,                \* the last calls made, newest first (history)
    ncalls              \* number of method calls made so far (history)

vars == <<heap, vertices_original, vertices, faces, log, ncalls>>

\* Method calls explored per run.
MaxCalls == 3

\* Largest scale factor tried; factors range over -1..MaxFactor.
MaxFactor == 2

----------------------------------------------------------------------------
\* Doubles: a + b*delta

Num(a, b) == [m |-> a, e |-> b]

Int2F(a) == Num(a, 0)

Add(x, y) == Num(x.m + y.m, x.e + y.e)

Mul(x, y) == Num(x.m * y.m, x.m * y.e + x.e * y.m)

----------------------------------------------------------------------------
\* numpy

\* np.array(rows) of Python numbers
Array(rows) == [i \in DOMAIN rows |-> [j \in DOMAIN rows[i] |-> Int2F(rows[i][j])]]

\* radians with the angle first clamped to the spinbox range -360..360
radians_clamped(angle_degrees) ==
    LET a == IF angle_degrees > 360 THEN 360
             ELSE IF angle_degrees < -360 THEN -360 ELSE angle_degrees
        q == IF a >= 0 THEN a \div 90 ELSE -((-a) \div 90)
    IN  [q |-> q, e |-> -q]

\* np.radians(angle_degrees), angle_degrees a multiple of 90: q quarter turns,
\* less q*delta, since fl(q*pi/2) = q*pi/2 - q*delta.
radians(angle_degrees) ==
    LET q == IF angle_degrees >= 0 THEN angle_degrees \div 90
                                   ELSE -((-angle_degrees) \div 90)
    IN  [q |-> q, e |-> -q]

CosQ(q) == CASE q % 4 = 0 -> 1 [] q % 4 = 1 -> 0 [] q % 4 = 2 -> -1 [] OTHER -> 0

SinQ(q) == CASE q % 4 = 0 -> 0 [] q % 4 = 1 -> 1 [] q % 4 = 2 -> 0 [] OTHER -> -1

\* np.cos(a) = cos(q*pi/2 + e*delta) = cos(q*pi/2) - e*delta*sin(q*pi/2)
cos(a) == Num(CosQ(a.q), -(a.e * SinQ(a.q)))

\* np.sin(a) = sin(q*pi/2 + e*delta) = sin(q*pi/2) + e*delta*cos(q*pi/2)
sin(a) == Num(SinQ(a.q), a.e * CosQ(a.q))

\* M.T
Transpose(M) ==
    IF Len(M) = 0 THEN <<>>
    ELSE [j \in DOMAIN M[1] |-> [i \in DOMAIN M |-> M[i][j]]]

RECURSIVE DotCol(_, _, _, _)
\* u[1]*B[1][j] + ... + u[k]*B[k][j]
DotCol(u, B, j, k) ==
    IF k = 0 THEN Int2F(0)
    ELSE IF k = 1 THEN Mul(u[1], B[1][j])
    ELSE Add(DotCol(u, B, j, k - 1), Mul(u[k], B[k][j]))

\* A @ B
MatMul(A, B) ==
    [i \in 1 .. Len(A) |-> [j \in 1 .. Len(B[1]) |-> DotCol(A[i], B, j, Len(B))]]

\* A * abs(factor)
Times_abs(A, factor) ==
    [i \in DOMAIN A |-> [j \in DOMAIN A[i] |->
        Mul(A[i][j], IF factor.m < 0 THEN Num(-factor.m, -factor.e) ELSE factor)]]

\* A * factor, factor a scalar (broadcast)
Times(A, factor) == [i \in DOMAIN A |-> [j \in DOMAIN A[i] |-> Mul(A[i][j], factor)]]

\* A + row, row a vector of A's row length (broadcast)
Plus(A, row) == [i \in DOMAIN A |-> [j \in DOMAIN A[i] |-> Add(A[i][j], row[j])]]

----------------------------------------------------------------------------
\* Objects

Ids == 0 .. 2

\* a heap slot that holds no object
Free == <<>>

\* the ndarray self.vertices refers to
Cur == heap[vertices]

\* the ndarray self.vertices_original refers to
Orig == heap[vertices_original]

\* the identity of a newly created object
New == CHOOSE i \in Ids : heap[i] = Free /\ \A j \in Ids : heap[j] = Free => i <= j

\* self.vertices = <the object id of heap h>; the array self.vertices named
\* before is collected once nothing refers to it
Rebind(id, h) ==
    /\ vertices' = id
    /\ heap' = [i \in Ids |->
                  IF i = vertices /\ i # id /\ i # vertices_original
                  THEN Free ELSE h[i]]

\* self.vertices = <expression whose value is the new ndarray arr>
Assign(arr) == LET id == New IN Rebind(id, [heap EXCEPT ![id] = arr])

\* history: the call, its arguments and the vertices it started from
Record(op, args) ==
    /\ log' = SubSeq(<<[op |-> op, args |-> args, before |-> Cur]>> \o log,
                     1, IF Len(log) = 0 THEN 1 ELSE 2)
    /\ ncalls' = ncalls + 1

----------------------------------------------------------------------------
\* Diamond3D

CanonicalVertices ==
    << <<0, 0, 1>>, <<1, 0, 0>>, <<0, 1, 0>>,
       <<-1, 0, 0>>, <<0, -1, 0>>, <<0, 0, -1>> >>

CanonicalFaces ==
    << <<0, 1, 2>>, <<0, 2, 3>>, <<0, 3, 4>>, <<0, 4, 1>>,
       <<5, 2, 1>>, <<5, 3, 2>>, <<5, 4, 3>>, <<5, 1, 4>> >>

\* __init__
Init ==
    /\ vertices_original = 0
    /\ vertices = 1
    /\ heap = [i \in Ids |-> IF i \in {0, 1} THEN Array(CanonicalVertices) ELSE Free]
    /\ faces = CanonicalFaces
    /\ log = <<>>
    /\ ncalls = 0

\* reset that copies the current array instead of the original
reset_keep ==
    /\ ncalls < MaxCalls
    /\ Assign(Cur)
    /\ Record("reset", <<>>)
    /\ UNCHANGED <<vertices_original, faces>>

\* reset without the deepcopy: self.vertices = self.vertices_original
reset_alias ==
    /\ ncalls < MaxCalls
    /\ Rebind(vertices_original, heap)
    /\ Record("reset", <<>>)
    /\ UNCHANGED <<vertices_original, faces>>

reset ==
    /\ ncalls < MaxCalls
    /\ Assign(Orig)
    /\ Record("reset", <<>>)
    /\ UNCHANGED <<vertices_original, faces>>

scale(factor) ==
    /\ ncalls < MaxCalls
    /\ Assign(Times(Cur, Int2F(factor)))
    /\ Record("scale", <<factor>>)
    /\ UNCHANGED <<vertices_original, faces>>

\* translate that offsets the original vertices instead of the current ones
translate_original(tx, ty, tz) ==
    /\ ncalls < MaxCalls
    /\ LET translation_matrix == Array(<< <<tx, ty, tz>> >>)[1]
       IN  Assign(Plus(Orig, translation_matrix))
    /\ Record("translate", <<tx, ty, tz>>)
    /\ UNCHANGED <<vertices_original, faces>>

translate(tx, ty, tz) ==
    /\ ncalls < MaxCalls
    /\ LET translation_matrix == Array(<< <<tx, ty, tz>> >>)[1]
       IN  Assign(Plus(Cur, translation_matrix))
    /\ Record("translate", <<tx, ty, tz>>)
    /\ UNCHANGED <<vertices_original, faces>>

RotX(angle_rad) ==
    << <<Int2F(1), Int2F(0), Int2F(0)>>,
       <<Int2F(0), cos(angle_rad), Mul(Int2F(-1), sin(angle_rad))>>,
       <<Int2F(0), sin(angle_rad), cos(angle_rad)>> >>

RotY(angle_rad) ==
    << <<cos(angle_rad), Int2F(0), sin(angle_rad)>>,
       <<Int2F(0), Int2F(1), Int2F(0)>>,
       <<Mul(Int2F(-1), sin(angle_rad)), Int2F(0), cos(angle_rad)>> >>

\* the rotation about Z with the signs of the sines exchanged
RotZ_clockwise(angle_rad) ==
    << <<cos(angle_rad), sin(angle_rad), Int2F(0)>>,
       <<Mul(Int2F(-1), sin(angle_rad)), cos(angle_rad), Int2F(0)>>,
       <<Int2F(0), Int2F(0), Int2F(1)>> >>

RotZ(angle_rad) ==
    << <<cos(angle_rad), Mul(Int2F(-1), sin(angle_rad)), Int2F(0)>>,
       <<sin(angle_rad), cos(angle_rad), Int2F(0)>>,
       <<Int2F(0), Int2F(0), Int2F(1)>> >>

rotate_x(angle_degrees) ==
    /\ ncalls < MaxCalls
    /\ LET rotation_matrix == RotX(radians(angle_degrees))
       IN  Assign(MatMul(Cur, Transpose(rotation_matrix)))
    /\ Record("rotate_x", <<angle_degrees>>)
    /\ UNCHANGED <<vertices_original, faces>>

\* rotate_y computing rotation_matrix @ self.vertices.T, never transposed back
rotate_y_untransposed(angle_degrees) ==
    /\ ncalls < MaxCalls
    /\ LET rotation_matrix == RotY(radians(angle_degrees))
       IN  Assign(MatMul(rotation_matrix, Transpose(Cur)))
    /\ Record("rotate_y", <<angle_degrees>>)
    /\ UNCHANGED <<vertices_original, faces>>

rotate_y(angle_degrees) ==
    /\ ncalls < MaxCalls
    /\ LET rotation_matrix == RotY(radians(angle_degrees))
       IN  Assign(MatMul(Cur, Transpose(rotation_matrix)))
    /\ Record("rotate_y", <<angle_degrees>>)
    /\ UNCHANGED <<vertices_original, faces>>

rotate_z(angle_degrees) ==
    /\ ncalls < MaxCalls
    /\ LET rotation_matrix == RotZ(radians(angle_degrees))
       IN  Assign(MatMul(Cur, Transpose(rotation_matrix)))
    /\ Record("rotate_z", <<angle_degrees>>)
    /\ UNCHANGED <<vertices_original, faces>>

\* reflect_x that also reverses the winding of every face
reflect_x_winding ==
    /\ ncalls < MaxCalls
    /\ LET reflection_matrix == Array(<< <<-1, 0, 0>>, <<0, 1, 0>>, <<0, 0, 1>> >>)
       IN  Assign(MatMul(Cur, Transpose(reflection_matrix)))
    /\ Record("reflect_x", <<>>)
    /\ faces' = [f \in DOMAIN faces |-> <<faces[f][3], faces[f][2], faces[f][1]>>]
    /\ UNCHANGED vertices_original

\* reflect_x with the -1 on the Y row of the matrix
reflect_x_wrong_axis ==
    /\ ncalls < MaxCalls
    /\ LET reflection_matrix == Array(<< <<1, 0, 0>>, <<0, -1, 0>>, <<0, 0, 1>> >>)
       IN  Assign(MatMul(Cur, Transpose(reflection_matrix)))
    /\ Record("reflect_x", <<>>)
    /\ UNCHANGED <<vertices_original, faces>>

reflect_x ==
    /\ ncalls < MaxCalls
    /\ LET reflection_matrix == Array(<< <<-1, 0, 0>>, <<0, 1, 0>>, <<0, 0, 1>> >>)
       IN  Assign(MatMul(Cur, Transpose(reflection_matrix)))
    /\ Record("reflect_x", <<>>)
    /\ UNCHANGED <<vertices_original, faces>>

\* reflect_y with 0 where the matrix has -1
reflect_y_flatten ==
    /\ ncalls < MaxCalls
    /\ LET reflection_matrix == Array(<< <<1, 0, 0>>, <<0, 0, 0>>, <<0, 0, 1>> >>)
       IN  Assign(MatMul(Cur, Transpose(reflection_matrix)))
    /\ Record("reflect_y", <<>>)
    /\ UNCHANGED <<vertices_original, faces>>

reflect_y ==
    /\ ncalls < MaxCalls
    /\ LET reflection_matrix == Array(<< <<1, 0, 0>>, <<0, -1, 0>>, <<0, 0, 1>> >>)
       IN  Assign(MatMul(Cur, Transpose(reflection_matrix)))
    /\ Record("reflect_y", <<>>)
    /\ UNCHANGED <<vertices_original, faces>>

reflect_z ==
    /\ ncalls < MaxCalls
    /\ LET reflection_matrix == Array(<< <<1, 0, 0>>, <<0, 1, 0>>, <<0, 0, -1>> >>)
       IN  Assign(MatMul(Cur, Transpose(reflection_matrix)))
    /\ Record("reflect_z", <<>>)
    /\ UNCHANGED <<vertices_original, faces>>

----------------------------------------------------------------------------
\* Arguments tried

Factors == -1 .. MaxFactor

Translations == { <<1, 1, 1>>, <<-1, 0, 0>>, <<0, 2, -1>> }

\* multiples of 90 degrees, two of them outside the spinbox range -360..360
AnglesZ == {0, 90, 180, 270, 360, 450, -90}

AnglesXY == {90, 270}

Next ==
    \/ reset
    \/ \E factor \in Factors : scale(factor)
    \/ \E t \in Translations : translate(t[1], t[2], t[3])
    \/ \E a \in AnglesXY : rotate_x(a)
    \/ \E a \in AnglesXY : rotate_y(a)
    \/ \E a \in AnglesZ : rotate_z(a)
    \/ reflect_x
    \/ reflect_y
    \/ reflect_z

Spec == Init /\ [][Next]_vars

----------------------------------------------------------------------------
\* Properties

Pt(x, y, z) == <<Int2F(x), Int2F(y), Int2F(z)>>

\* the six vertices of the octahedron, in the order of the source
ExpectedVertices ==
    << Pt(0, 0, 1), Pt(1, 0, 0), Pt(0, 1, 0), Pt(-1, 0, 0), Pt(0, -1, 0), Pt(0, 0, -1) >>

Neg(x) == Num(-x.m, -x.e)

Abs(n) == IF n < 0 THEN -n ELSE n

\* 1e-9 in units of delta: delta < 6.2e-17, so 1e-9 > (10^9 \div 62) * delta
TolUnits == (10 ^ 9) \div 62

\* |x - y| <= 1e-9
Close(x, y) == x.m = y.m /\ Abs(x.e - y.e) <= TolUnits

CloseArr(A, B) ==
    /\ Len(A) = Len(B)
    /\ \A i \in 1 .. Len(A) :
          /\ Len(A[i]) = Len(B[i])
          /\ \A j \in 1 .. Len(A[i]) : Close(A[i][j], B[i][j])

\* the last call was op
Called1(op) == Len(log) >= 1 /\ log[1].op = op

\* the last two calls were op2 and then op1
Called2(op2, op1) == Len(log) = 2 /\ log[2].op = op2 /\ log[1].op = op1

\* C1: after any sequence of transforms, reset() leaves the current vertices
\* equal, coordinate for coordinate, to (0,0,1),(1,0,0),(0,1,0),(-1,0,0),
\* (0,-1,0),(0,0,-1), which are the original vertices.
C1_ResetRestores ==
    Called1("reset") => (Cur = ExpectedVertices /\ Cur = Orig)

C1_Witness ==
    /\ ncalls = 3
    /\ Called2("rotate_z", "reset")
    /\ log[2].before # ExpectedVertices
    /\ log[1].before # ExpectedVertices
    /\ log[1].before # log[2].before
    /\ Cur = ExpectedVertices

\* C2: vertices_original holds the six canonical coordinates in every
\* reachable state, and self.vertices is never the same object as
\* self.vertices_original.
C2_OriginalUntouched ==
    /\ Orig = ExpectedVertices
    /\ vertices # vertices_original

C2_Witness ==
    /\ Called2("reset", "scale")
    /\ log[1].args = <<2>>
    /\ Cur # ExpectedVertices
    /\ Orig = ExpectedVertices
    /\ vertices # vertices_original

\* C3: faces is the list of the eight triples set at construction in every
\* reachable state, and every face index is in 0..5.
C3_FacesFixed ==
    /\ faces = << <<0, 1, 2>>, <<0, 2, 3>>, <<0, 3, 4>>, <<0, 4, 1>>,
                  <<5, 2, 1>>, <<5, 3, 2>>, <<5, 4, 3>>, <<5, 1, 4>> >>
    /\ \A f \in 1 .. Len(faces) : \A k \in 1 .. Len(faces[f]) : faces[f][k] \in 0 .. 5

C3_Witness ==
    /\ ncalls >= 3
    /\ Called2("reflect_x", "reset")
    /\ log[2].before # ExpectedVertices
    /\ Len(faces) = 8

C5_ReflectTwice ==
    \A op \in {"reflect_x", "reflect_y", "reflect_z"} :
        Called2(op, op) => Cur = log[2].before

C5_Witness ==
    /\ ncalls = 3
    /\ Called2("reflect_y", "reflect_y")
    /\ log[2].before # ExpectedVertices
    /\ log[1].before # log[2].before
    /\ Cur = log[2].before

\* C6: from the canonical mesh, scale(f) and then translate(dx,dy,dz) leave
\* vertex i at original[i]*f + (dx,dy,dz); vertex 0 is (0,0,2) after scale(2)
\* and (1,1,3) after the translate(1,1,1) that follows.
C6_ScaleThenTranslate ==
    (Called2("scale", "translate") /\ log[2].before = ExpectedVertices) =>
        LET f == log[2].args[1]
            d == log[1].args
        IN  /\ \A i \in 1 .. 6 : \A j \in 1 .. 3 :
                  Cur[i][j] = Int2F(ExpectedVertices[i][j].m * f + d[j])
            /\ (f = 2 /\ d = <<1, 1, 1>>) =>
                  (log[1].before[1] = Pt(0, 0, 2) /\ Cur[1] = Pt(1, 1, 3))

C6_Witness ==
    /\ Called2("scale", "translate")
    /\ log[2].before = ExpectedVertices
    /\ log[2].args = <<2>>
    /\ log[1].args = <<1, 1, 1>>
    /\ Cur[1] = Pt(1, 1, 3)

\* C7: rotate_z(90) takes each vertex (x,y,z) to (-y,x,z): z is unchanged
\* exactly, the other two coordinates to within 1e-9 (np.cos(np.radians(90))
\* is 6.1e-17, not 0); vertex 1 = (1,0,0) of the canonical mesh becomes
\* (0,1,0).
C7_RotateZ90 ==
    (Called1("rotate_z") /\ log[1].args = <<90>>) =>
        /\ \A i \in 1 .. Len(Cur) :
              LET b == log[1].before[i]
              IN  /\ Cur[i][3] = b[3]
                  /\ Close(Cur[i][1], Neg(b[2]))
                  /\ Close(Cur[i][2], b[1])
        /\ log[1].before = ExpectedVertices =>
              (Close(Cur[2][1], Int2F(0)) /\ Close(Cur[2][2], Int2F(1))
               /\ Cur[2][3] = Int2F(0))

C7_Witness ==
    /\ Called1("rotate_z")
    /\ log[1].args = <<90>>
    /\ log[1].before = ExpectedVertices
    /\ Cur[2] = <<Num(0, 1), Int2F(1), Int2F(0)>>

C9_ScaleComposes ==
    Called2("scale", "scale") =>
        LET f == log[2].args[1] * log[1].args[1]
            V == log[2].before
        IN  \A i \in 1 .. Len(V) : \A j \in 1 .. Len(V[i]) :
                /\ Close(Cur[i][j], Mul(V[i][j], Int2F(f)))
                /\ V[i][j].e = 0 => Cur[i][j] = Int2F(V[i][j].m * f)

C9_Witness ==
    /\ ncalls = 3
    /\ Called2("scale", "scale")
    /\ log[2].args = <<-1>>
    /\ log[1].args = <<2>>
    /\ log[2].before # ExpectedVertices
    /\ \E i \in 1 .. 6 : Cur[i][1].m # 0 /\ Cur[i][1] = Mul(log[2].before[i][1], Int2F(-2))

\* C10: reflect_x negates the X coordinate of every vertex and leaves Y and Z
\* as they were (reflect_y: only Y; reflect_z: only Z); on the canonical mesh
\* vertex 1 becomes (-1,0,0), vertex 3 becomes (1,0,0) and vertices 0, 2, 4, 5
\* stay where they are.
C10_ReflectAxis ==
    /\ Called1("reflect_x") =>
          /\ \A i \in 1 .. Len(Cur) :
                LET b == log[1].before[i] IN Cur[i] = <<Neg(b[1]), b[2], b[3]>>
          /\ log[1].before = ExpectedVertices =>
                /\ Cur[2] = Pt(-1, 0, 0)
                /\ Cur[4] = Pt(1, 0, 0)
                /\ \A i \in {1, 3, 5, 6} : Cur[i] = ExpectedVertices[i]
    /\ Called1("reflect_y") =>
          \A i \in 1 .. Len(Cur) :
              LET b == log[1].before[i] IN Cur[i] = <<b[1], Neg(b[2]), b[3]>>
    /\ Called1("reflect_z") =>
          \A i \in 1 .. Len(Cur) :
              LET b == log[1].before[i] IN Cur[i] = <<b[1], b[2], Neg(b[3])>>

C10_Witness ==
    /\ Called1("reflect_x")
    /\ log[1].before = ExpectedVertices
    /\ Cur[2] = Pt(-1, 0, 0)
    /\ Cur[4] = Pt(1, 0, 0)
    /\ Cur[1] = Pt(0, 0, 1)

====
